---------------------------- MODULE Spec2Model ----------------------------
(***************************************************************************)
(* A model of rustproof: the Lexer (src/src/lexer.rs), the word expanders  *)
(* (src/src/expander.rs and src/src/expander/mod.rs), the filter chains    *)
(* Backend::misspelled_tokens (src/src/main.rs) and Pipeline::run          *)
(* (src/src/pipeline.rs, src/src/keywords.rs), the local dictionary, and   *)
(* the spell-check workers behind Backend::spell_check / Backend::suggest  *)
(* (src/src/main.rs).                                                      *)
(*                                                                         *)
(* Characters are named by short strings; a text is a sequence of them.    *)
(*   "a"      U+0061  ASCII lowercase letter                               *)
(*   "B"      U+0042  ASCII uppercase letter                               *)
(*   "oe"     U+00F6  o with diaeresis, one of the accented letters of     *)
(*                    is_accepted_char: 2 bytes in UTF-8, 1 UTF-16 unit    *)
(*   "'"      U+0027  single quote                                         *)
(*   "_"      U+005F  a character is_accepted_char rejects                 *)
(*   "LF"     U+000A  newline                                              *)
(*   "U10400" U+10400 a character outside the Basic Multilingual Plane     *)
(* The documents the Backend checks also use the letters "i", "m", "p",    *)
(* "l" and "I" (ASCII) and "OE" (U+00D6, the uppercase of "oe"); "b" is    *)
(* what to_lowercase makes of "B".                                         *)
(***************************************************************************)
EXTENDS Integers, Sequences, FiniteSets, TLC

VARIABLES
    text,       \* the document handed to Lexer::new
    lx,         \* the Lexer: [text (what the char iterator still holds), col, line, offset]
    tokens,     \* the tokens Lexer::next has returned so far
    spans,      \* history: for each token, the Lexer offsets its lexeme was read between
    exhausted,  \* Lexer::next has returned None
    expanded,   \* for each token pulled so far, what the expanders made of it
    initPc,     \* where Backend::start_spellchecker stands
    checker,    \* Backend.checker: None, or the Sender of the check channel
    suggester,  \* Backend.suggester: None, or the Sender of the suggest channel
    chan,       \* per channel: its Receiver ("none", "held", "dropped") and its queue
    worker,     \* per worker thread: "unspawned", "idle", "busy" or "dead", and its request
    local_dict, \* Backend.local_dict: the lowercased words inserted
    sources,    \* Backend.sources: the text stored for the document's Url, if any
    task,       \* per caller: the handler it runs, on which text or word and thread
    handler,    \* per caller: which handler it is, and what it has read and reported
    pc,         \* per caller: "store", "insert", "get", "ready", "waiting", "done",
                \* "returned" or "panicked"
    cursor,     \* per caller: how many candidate tokens its filter chain has passed
    findings,   \* per caller: the tokens misspelled_tokens has collected so far
    suggestions, \* per caller: what suggest returned
    oneshot,    \* per caller: the oneshot channel of its request in flight
    outcomes,   \* history, per caller: how each of its requests ended
    arrived,    \* history, per channel: the requests in the order they were sent
    answered,   \* history, per channel: the requests in the order they were replied to
    peekable,   \* a BufferedPeekable under direct calls: its iter, buffer and buf_size
    returned,   \* history: the items its next has returned, in order
    last_call   \* history: the last call made on it, what it saw and what it returned

lexVars == <<text, lx, tokens, spans, exhausted, expanded>>
bridgeVars == <<initPc, checker, suggester, chan, worker, local_dict, sources>>
callerVars == <<task, handler, pc, cursor, findings, suggestions, oneshot, outcomes, arrived, answered>>
peekVars == <<peekable, returned, last_call>>
vars == <<lexVars, bridgeVars, callerVars, peekVars>>

\* ------------------------------------------------------------------ bounds
MaxTextLen == 4
MaxWordLen == 6
NumCallers == 2
MaxBufSize == 3

\* -------------------------------------------------------------- characters
None == "None"
Quote == "'"
Newline == "LF"

Chars == {"a", "B", "oe", Quote, "_", Newline, "U10400"}
WordChars == {"a", "B", "oe", Quote}

CodePoint(c) ==
    CASE c = "a" -> 97
      [] c = "B" -> 66
      [] c = "oe" -> 246
      [] c = Quote -> 39
      [] c = "_" -> 95
      [] c = Newline -> 10
      [] c = "U10400" -> 66560
      [] c = "i" -> 105
      [] c = "m" -> 109
      [] c = "p" -> 112
      [] c = "l" -> 108
      [] c = "I" -> 73
      [] c = "b" -> 98
      [] c = "OE" -> 214

\* char::len_utf16 as Lexer::next uses it
len_utf16(c) == IF CodePoint(c) % 65536 = CodePoint(c) THEN 1 ELSE 2

\* the bytes one char adds to a String: String::len counts these
len_utf8(c) ==
    IF CodePoint(c) < 128 THEN 1
    ELSE IF CodePoint(c) < 2048 THEN 2
    ELSE IF CodePoint(c) < 65536 THEN 3
    ELSE 4

is_uppercase(c) == c \in {"B", "I", "OE"}
is_lowercase(c) == c \in {"a", "oe", "i", "m", "p", "l", "b"}

\* Lexer::is_accepted_char: the ASCII letters and the listed accented letters
is_accepted_char(c) == c \in {"a", "B", "oe", "i", "m", "p", "l", "I", "b", "OE"}

RECURSIVE String_len(_)
\* String::len: the length of a String in bytes
String_len(s) == IF s = <<>> THEN 0 ELSE len_utf8(Head(s)) + String_len(Tail(s))

\* sequences over S of length 0..n
SeqsUpTo(S, n) == UNION {[1..k -> S] : k \in 0..n}

\* ------------------------------------------------------------------- Lexer
Pos(line, col) == [line |-> line, col |-> col]

\* Pos::set_col
set_col(p, col) == [line |-> p.line, col |-> col]

Token(lexeme, start, end) == [lexeme |-> lexeme, start |-> start, end |-> end]

\* Option<T>: Some(v), and None with a value nothing reads
Some(v) == [some |-> TRUE, v |-> v]
NoToken == [some |-> FALSE, v |-> Token(<<>>, Pos(0, 0), Pos(0, 0))]
NoWord == [some |-> FALSE, v |-> <<>>]
NoTokens == [some |-> FALSE, v |-> <<>>]

\* Lexer::new
Lexer_new(t) == [text |-> t, col |-> 0, line |-> 0, offset |-> 0]

\* Lexer::pos
Lexer_pos(l) == Pos(l.line, l.col)

\* Lexer::next counting characters, not UTF-16 code units
Lexer_next_counts_chars(l) ==
    IF l.text = <<>> THEN [ch |-> None, lx |-> l]
    ELSE LET char == Head(l.text) IN
         [ch |-> char,
          lx |-> [text |-> Tail(l.text),
                  col |-> IF char = Newline THEN 0 ELSE l.col + 1,
                  line |-> IF char = Newline THEN l.line + 1 ELSE l.line,
                  offset |-> l.offset + 1]]

\* Lexer::next going to the next line without setting the column back to 0
Lexer_next_keeps_col(l) ==
    IF l.text = <<>> THEN [ch |-> None, lx |-> l]
    ELSE LET char == Head(l.text) IN
         [ch |-> char,
          lx |-> [text |-> Tail(l.text),
                  col |-> l.col + len_utf16(char),
                  line |-> IF char = Newline THEN l.line + 1 ELSE l.line,
                  offset |-> l.offset + 1]]

\* Lexer::next (the private char step): the char read, or None, and the Lexer after it
Lexer_next(l) ==
    IF l.text = <<>> THEN [ch |-> None, lx |-> l]
    ELSE LET char == Head(l.text) IN
         [ch |-> char,
          lx |-> [text |-> Tail(l.text),
                  col |-> IF char = Newline THEN 0 ELSE l.col + len_utf16(char),
                  line |-> IF char = Newline THEN l.line + 1 ELSE l.line,
                  offset |-> l.offset + 1]]

RECURSIVE next_token(_)
RECURSIVE next_token_loop(_, _, _, _, _, _)

\* the tail of Lexer::next_token giving up at a break with nothing accumulated
next_token_stops_at_break(l, start, from, end, upto, lexeme) ==
    IF lexeme = <<>> THEN [tok |-> NoToken, lx |-> l, from |-> from, upto |-> upto]
    ELSE [tok |-> Some(Token(lexeme, start, end)), lx |-> l, from |-> from, upto |-> upto]

\* the tail of Lexer::next_token, after its loop is left by a break
next_token_after_loop(l, start, from, end, upto, lexeme) ==
    IF lexeme = <<>> THEN next_token(l)
    ELSE [tok |-> Some(Token(lexeme, start, end)), lx |-> l, from |-> from, upto |-> upto]

\* the loop of Lexer::next_token appending a quote as soon as it is read, not
\* when the letter after it arrives
next_token_loop_keeps_quote(l, start, from, upto, lexeme, maybe_quote) ==
    LET end == Lexer_pos(l)
        r == Lexer_next(l)
    IN IF r.ch = None
       THEN IF lexeme = <<>>
            THEN [tok |-> NoToken, lx |-> r.lx, from |-> from, upto |-> upto]
            ELSE [tok |-> Some(Token(lexeme, start, end)), lx |-> r.lx,
                  from |-> from, upto |-> upto]
       ELSE IF is_accepted_char(r.ch)
       THEN next_token_loop(r.lx, start, from, r.lx.offset, Append(lexeme, r.ch), None)
       ELSE IF r.ch = Quote
       THEN IF lexeme = <<>>
            THEN next_token_after_loop(r.lx, start, from, end, upto, lexeme)
            ELSE next_token_loop(r.lx, start, from, upto, Append(lexeme, r.ch), None)
       ELSE next_token_after_loop(r.lx, start, from, end, upto, lexeme)

\* one turn of the loop of Lexer::next_token. from and upto are history: the
\* offset at which start was taken and the offset after the last char appended.
\* self.next() is called once per turn and its result bound: r is that result.
next_token_loop(l, start, from, upto, lexeme, maybe_quote) ==
    LET end == Lexer_pos(l)
        turn(r) ==
            IF r.ch = None
            THEN IF lexeme = <<>>
                 THEN [tok |-> NoToken, lx |-> r.lx, from |-> from, upto |-> upto]
                 ELSE [tok |-> Some(Token(lexeme, start, end)), lx |-> r.lx,
                       from |-> from, upto |-> upto]
            ELSE IF is_accepted_char(r.ch)
            THEN next_token_loop(r.lx, start, from, r.lx.offset,
                               (IF maybe_quote # None THEN Append(lexeme, maybe_quote)
                                                     ELSE lexeme) \o <<r.ch>>,
                               None)
            ELSE IF r.ch = Quote
            THEN IF lexeme = <<>>
                 THEN next_token_after_loop(r.lx, start, from, end, upto, lexeme)
                 ELSE next_token_loop(r.lx, start, from, upto, lexeme, r.ch)
            ELSE next_token_after_loop(r.lx, start, from, end, upto, lexeme)
    IN CHOOSE t \in {turn(r) : r \in {Lexer_next(l)}} : TRUE

\* Lexer::next_token returning None at a character that starts no word,
\* instead of skipping it
next_token_gives_up(l) ==
    IF l.text # <<>> /\ ~is_accepted_char(Head(l.text))
    THEN [tok |-> NoToken, lx |-> l, from |-> l.offset, upto |-> l.offset]
    ELSE next_token_loop(l, Lexer_pos(l), l.offset, l.offset, <<>>, None)

\* Lexer::next_token
next_token(l) == next_token_loop(l, Lexer_pos(l), l.offset, l.offset, <<>>, None)

\* -------------------------------------------------------- BufferedPeekable
\* BufferedPeekable::new
BufferedPeekable_new(iter, buf_size) == [iter |-> iter, buffer |-> <<>>, buf_size |-> buf_size]

RECURSIVE peek_at_fill(_, _)
\* the while loop of BufferedPeekable::peek_at
peek_at_fill(bp, idx) ==
    IF Len(bp.buffer) <= idx /\ bp.iter # <<>>
    THEN peek_at_fill([bp EXCEPT !.buffer = Append(@, Head(bp.iter)), !.iter = Tail(@)], idx)
    ELSE bp

\* BufferedPeekable::peek_at: the item, or None, and the BufferedPeekable after it
peek_at(bp, idx) ==
    IF idx >= bp.buf_size THEN [item |-> None, bp |-> bp]
    ELSE LET f == peek_at_fill(bp, idx) IN
         [item |-> IF idx < Len(f.buffer) THEN f.buffer[idx + 1] ELSE None, bp |-> f]

\* BufferedPeekable::peek
peek(bp) == peek_at(bp, 0)

\* a next that reads the underlying iterator although items are buffered
BufferedPeekable_next_skips_buffer(bp) ==
    IF bp.iter = <<>>
    THEN IF bp.buffer = <<>> THEN [item |-> None, bp |-> bp]
         ELSE [item |-> Head(bp.buffer), bp |-> [bp EXCEPT !.buffer = Tail(@)]]
    ELSE [item |-> Head(bp.iter), bp |-> [bp EXCEPT !.iter = Tail(@)]]

\* Iterator::next of BufferedPeekable
BufferedPeekable_next(bp) ==
    IF bp.buffer = <<>>
    THEN IF bp.iter = <<>> THEN [item |-> None, bp |-> bp]
         ELSE [item |-> Head(bp.iter), bp |-> [bp EXCEPT !.iter = Tail(@)]]
    ELSE [item |-> Head(bp.buffer), bp |-> [bp EXCEPT !.buffer = Tail(@)]]

\* ------------------------------------------------- Expander (expander.rs)
\* the peek buffer Expander::new asks for
ExpanderBufSize == 2

\* Expander::new
Expander_new(lexeme) == BufferedPeekable_new(lexeme, ExpanderBufSize)

RECURSIVE parse_lower_loop(_, _)
\* the while loop shared by Expander::parse_pascal and Expander::parse_lower
parse_lower_loop(bp, word) ==
    LET p == peek(bp) IN
    IF p.item # None /\ is_lowercase(p.item)
    THEN LET n == BufferedPeekable_next(p.bp) IN parse_lower_loop(n.bp, Append(word, n.item))
    ELSE [word |-> Some(word), bp |-> p.bp]

\* Expander::parse_pascal
parse_pascal(bp, first) == parse_lower_loop(bp, <<first>>)

\* Expander::parse_lower
parse_lower(bp, first) == parse_lower_loop(bp, <<first>>)

RECURSIVE parse_upper_greedy(_, _)
\* the loop of Expander::parse_upper taking every uppercase letter, without the
\* look at the letter after it
parse_upper_greedy(bp, word) ==
    LET p == peek(bp) IN
    IF p.item # None /\ is_uppercase(p.item)
    THEN LET n == BufferedPeekable_next(p.bp) IN parse_upper_greedy(n.bp, Append(word, n.item))
    ELSE [word |-> Some(word), bp |-> p.bp]

RECURSIVE parse_upper_loop(_, _)
\* the loop of Expander::parse_upper
parse_upper_loop(bp, word) ==
    LET p1 == peek(bp)
        p2 == peek_at(p1.bp, 1)
    IN IF p1.item # None /\ p2.item = None
       THEN LET n == BufferedPeekable_next(p2.bp) IN parse_upper_loop(n.bp, Append(word, n.item))
       ELSE IF p1.item # None /\ p2.item # None
       THEN IF is_uppercase(p1.item) /\ is_uppercase(p2.item)
            THEN LET n == BufferedPeekable_next(p2.bp) IN parse_upper_loop(n.bp, Append(word, n.item))
            ELSE [word |-> Some(word), bp |-> p2.bp]
       ELSE [word |-> Some(word), bp |-> p2.bp]

\* Expander::parse_upper
parse_upper(bp, first) == parse_upper_loop(bp, <<first>>)

\* Expander::next_word: the word, or None, and the Expander after it
next_word(bp) ==
    LET n == BufferedPeekable_next(bp)
        p == peek(n.bp)
    IN IF n.item = None \/ p.item = None THEN [word |-> NoWord, bp |-> p.bp]
       ELSE IF is_uppercase(n.item) /\ ~is_uppercase(p.item) THEN parse_pascal(p.bp, n.item)
       ELSE IF is_uppercase(n.item) /\ is_uppercase(p.item) THEN parse_upper(p.bp, n.item)
       ELSE IF ~is_uppercase(n.item) /\ ~is_uppercase(p.item) THEN parse_lower(p.bp, n.item)
       ELSE [word |-> NoWord, bp |-> p.bp]

RECURSIVE Expander_collect(_)
\* the Expander drained as an Iterator: the words up to its first None
Expander_collect(bp) ==
    LET r == next_word(bp) IN
    IF ~r.word.some THEN <<>> ELSE <<r.word.v>> \o Expander_collect(r.bp)

\* the words Expander::new(lexeme.chars()) yields
Expander_words(lexeme) == Expander_collect(Expander_new(lexeme))

RECURSIVE expand_uppercase_map(_, _, _)
\* the map closure of expand (expander.rs) and of expand_uppercase: each word
\* becomes a token on the line of tok, from column start, String::len columns wide
expand_uppercase_map(tok, words, start) ==
    IF words = <<>> THEN <<>>
    ELSE LET lexeme_len == String_len(Head(words)) IN
         <<Token(Head(words), set_col(tok.start, start), set_col(tok.end, start + lexeme_len))>>
         \o expand_uppercase_map(tok, Tail(words), start + lexeme_len)

\* impl Expandable for Token, expander.rs: expand(&self) -> Vec<Token>
Expander_expand(tok) == expand_uppercase_map(tok, Expander_words(tok.lexeme), tok.start.col)

\* ------------------------------------- casing expander (expander/mod.rs)
\* Iterator::any(|c| c.is_uppercase()) on the chars s
any_is_uppercase(s) == \E i \in 1..Len(s) : is_uppercase(s[i])

\* Iterator::any(|c| c.is_lowercase()) on the chars s
any_is_lowercase(s) == \E i \in 1..Len(s) : is_lowercase(s[i])

RECURSIVE after_any_is_uppercase(_)
\* what a char iterator still holds after any(|c| c.is_uppercase()) has run on
\* it: any() consumes up to and including the first match
after_any_is_uppercase(s) ==
    IF s = <<>> THEN <<>>
    ELSE IF is_uppercase(Head(s)) THEN Tail(s)
    ELSE after_any_is_uppercase(Tail(s))

\* is_camel, expander/camel.rs
is_camel(s) ==
    IF s = <<>> THEN FALSE
    ELSE IF is_uppercase(Head(s)) THEN FALSE
    ELSE any_is_uppercase(Tail(s))

\* is_pascal, expander/pascal.rs: both any() calls advance the same iterator
is_pascal(s) ==
    IF s = <<>> THEN FALSE
    ELSE IF is_lowercase(Head(s)) THEN FALSE
    ELSE any_is_uppercase(Tail(s)) /\ any_is_lowercase(after_any_is_uppercase(Tail(s)))

RECURSIVE split_on_uppercase_loop(_, _, _)
\* the for loop of split_on_uppercase without the push after it
split_on_uppercase_loop_no_push(s, words, current_word) ==
    IF s = <<>> THEN words
    ELSE IF is_uppercase(Head(s)) /\ current_word # <<>>
    THEN split_on_uppercase_loop(Tail(s), Append(words, current_word), <<Head(s)>>)
    ELSE split_on_uppercase_loop(Tail(s), words, Append(current_word, Head(s)))

\* the for loop of split_on_uppercase and the push after it
split_on_uppercase_loop(s, words, current_word) ==
    IF s = <<>>
    THEN IF current_word # <<>> THEN Append(words, current_word) ELSE words
    ELSE IF is_uppercase(Head(s)) /\ current_word # <<>>
    THEN split_on_uppercase_loop(Tail(s), Append(words, current_word), <<Head(s)>>)
    ELSE split_on_uppercase_loop(Tail(s), words, Append(current_word, Head(s)))

\* split_on_uppercase
split_on_uppercase(s) == split_on_uppercase_loop(s, <<>>, <<>>)

\* expand_uppercase
expand_uppercase(tok) == expand_uppercase_map(tok, split_on_uppercase(tok.lexeme), tok.start.col)

\* expand_camel
expand_camel(tok) == expand_uppercase(tok)

\* Pos::increment_col, which expand_pascal calls: the column moved right by n
increment_col(p, n) == [line |-> p.line, col |-> p.col + n]

RECURSIVE expand_pascal_map(_, _, _)
\* the map closure of expand_pascal
expand_pascal_map(tok, words, start) ==
    IF words = <<>> THEN <<>>
    ELSE LET lexeme_len == String_len(Head(words)) IN
         <<Token(Head(words), increment_col(tok.start, start),
                 increment_col(tok.end, start + lexeme_len))>>
         \o expand_pascal_map(tok, Tail(words), start + lexeme_len)

\* expand_pascal, expander/pascal.rs
expand_pascal(tok) == expand_pascal_map(tok, split_on_uppercase(tok.lexeme), 0)

\* impl Expandable for Token, expander/mod.rs: expand(&self) -> Option<Vec<Token>>
expand(tok) ==
    IF is_camel(tok.lexeme) THEN Some(expand_camel(tok))
    ELSE IF is_pascal(tok.lexeme) THEN Some(expand_pascal(tok))
    ELSE NoTokens

\* the flat_map closure of Backend::misspelled_tokens and Pipeline::run
expand_or_keep(tok) == IF expand(tok).some THEN expand(tok).v ELSE <<tok>>

\* --------------------------------------------- lexing and expanding a text
InitLexFor(t) ==
    /\ text = t
    /\ lx = Lexer_new(t)
    /\ tokens = <<>>
    /\ spans = <<>>
    /\ exhausted = FALSE
    /\ expanded = <<>>

\* Iterator::next of the Lexer: one call of next_token
LexerPull ==
    /\ ~exhausted
    /\ LET r == next_token(lx) IN
       /\ lx' = r.lx
       /\ IF ~r.tok.some
          THEN exhausted' = TRUE /\ UNCHANGED <<tokens, spans>>
          ELSE /\ tokens' = Append(tokens, r.tok.v)
               /\ spans' = Append(spans, [from |-> r.from, upto |-> r.upto])
               /\ UNCHANGED exhausted
    /\ UNCHANGED <<text, expanded>>

\* Iterator::next of the Lexer, pulled by flat_map once the token before it has
\* gone through expand
LexerIterNext == Len(expanded) = Len(tokens) /\ LexerPull

RECURSIVE flat_map_expand(_)
\* flat_map over the expand closure
flat_map_expand(ts) ==
    IF ts = <<>> THEN <<>> ELSE expand_or_keep(Head(ts)) \o flat_map_expand(Tail(ts))

RECURSIVE flat_map_Expander_expand(_)
\* flat_map over expand of expander.rs
flat_map_Expander_expand(ts) ==
    IF ts = <<>> THEN <<>> ELSE Expander_expand(Head(ts)) \o flat_map_Expander_expand(Tail(ts))

\* the token just pulled goes through expand, in both implementations, and what
\* expand returned goes through it once more; the classifiers and the splitter
\* of expander/mod.rs run on its lexeme
ExpandPulled ==
    /\ Len(expanded) < Len(tokens)
    /\ LET tok == tokens[Len(expanded) + 1] IN
       expanded' = Append(expanded, [token |-> tok,
                                     casing |-> expand(tok),
                                     kept |-> expand_or_keep(tok),
                                     kept_again |-> flat_map_expand(expand_or_keep(tok)),
                                     iter |-> Expander_expand(tok),
                                     iter_again |-> flat_map_Expander_expand(Expander_expand(tok)),
                                     camel |-> is_camel(tok.lexeme),
                                     pascal |-> is_pascal(tok.lexeme),
                                     split |-> split_on_uppercase(tok.lexeme)])
    /\ UNCHANGED <<text, lx, tokens, spans, exhausted>>

\* ------------------------------------------- Backend: the filter chain
\* the length both filters of Backend::misspelled_tokens compare String::len with
MinLexemeLen == 3

RECURSIVE Lexer_collect(_)
\* the Lexer drained as an Iterator
Lexer_collect(l) ==
    LET r == next_token(l) IN
    IF ~r.tok.some THEN <<>> ELSE <<r.tok.v>> \o Lexer_collect(r.lx)

RECURSIVE filter_len(_)
\* filter(|t| t.lexeme.len() > 3)
filter_len(ts) ==
    IF ts = <<>> THEN <<>>
    ELSE (IF String_len(Head(ts).lexeme) > MinLexemeLen THEN <<Head(ts)>> ELSE <<>>)
         \o filter_len(Tail(ts))

\* Backend::misspelled_tokens up to its spell_check filter: the tokens whose
\* lexemes are sent to the check worker, in order
candidate_tokens(t) == filter_len(flat_map_expand(filter_len(Lexer_collect(Lexer_new(t)))))

\* keywords.rs, RUST: of its reserved words, the one the letters of the model spell
RUST == {<<"i", "m", "p", "l">>}

\* keywords::from_lang: the set of a known language, the empty set otherwise.
\* (No reserved word of JS or RUBY is spelled with the letters of the model.)
from_lang(lang) == IF lang = "rust" THEN RUST ELSE {}

\* the length the filter of Pipeline::run compares String::len with
PipelineMinLexemeLen == 1

RECURSIVE Pipeline_filter(_, _)
\* the two filters of Pipeline::run: lexeme.len() > 1, and not a reserved word
\* of the language
Pipeline_filter(ts, lang) ==
    IF ts = <<>> THEN <<>>
    ELSE (IF /\ String_len(Head(ts).lexeme) > PipelineMinLexemeLen
             /\ Head(ts).lexeme \notin from_lang(lang)
          THEN <<Head(ts)>> ELSE <<>>)
         \o Pipeline_filter(Tail(ts), lang)

\* Pipeline::run, pipeline.rs
Pipeline_run(lang, l) == flat_map_expand(Pipeline_filter(Lexer_collect(l), lang))

\* char::to_lowercase on the characters of the model
to_lowercase_char(c) ==
    CASE c = "B" -> "b"
      [] c = "I" -> "i"
      [] c = "OE" -> "oe"
      [] OTHER -> c

\* str::to_lowercase
to_lowercase(s) == [i \in 1..Len(s) |-> to_lowercase_char(s[i])]

\* LocalDictionary::contains looking the word up as it is written
LocalDictionary_contains_exact(dict, v) == v \in dict

\* LocalDictionary::contains
LocalDictionary_contains(dict, v) == to_lowercase(v) \in dict

\* ------------------------------------------------ Backend: the workers
Callers == 1..NumCallers

\* the dictionaries of the configuration, in order: two by default
Dicts == {1, 2}

\* the words Hunspell::check finds in each dictionary
DictWords(d) ==
    IF d = 1 THEN {<<"a", "a", "a", "a">>}
    ELSE {<<"a", "a", "a", "a">>, <<"B", "a", "a", "a">>}

\* what Hunspell::suggest returns from each dictionary for a word: for the
\* second word, seven distinct strings of more than 2 bytes between the two
\* dictionaries, one of them of two characters, and one string of 2 bytes
DictSuggest(d, word) ==
    IF word = <<"a", "a", "oe">>
    THEN IF d = 1 THEN << <<"a", "a", "a">>, <<"a", "a">> >>
                  ELSE << <<"a", "a", "a">>, <<"a", "a", "a", "a">> >>
    ELSE IF word = <<"oe", "oe", "l">>
    THEN IF d = 1 THEN << <<"oe", "l">>, <<"a", "a", "a">>, <<"a", "a", "a", "a">>,
                          <<"a", "a", "a", "B">> >>
                  ELSE << <<"a", "a", "a">>, <<"a", "a", "B">>, <<"a", "B", "a">>,
                          <<"B", "a", "a">>, <<"a", "l">> >>
    ELSE <<>>

\* the texts the callers check, and the words they ask suggestions for
BridgeTexts ==
    { <<"a", "a", "a", "a">>,
      <<"a", "a", "oe", "B", "oe", "oe">> }
BridgeWords == { <<"a", "a", "oe">> }

\* the work of a handler that checks a document (spell_check_uri): the text,
\* the candidate tokens the filter chain of misspelled_tokens will come to, and
\* the word add_to_dict inserts first, if the handler is add_to_dict
CheckTask(t, ins) ==
    [kind |-> "check", arg |-> t, cands |-> candidate_tokens(t), insert |-> ins]

\* the work of a handler that asks suggestions for a word
SuggestTask(w) == [kind |-> "suggest", arg |-> w, cands |-> <<>>, insert |-> NoWord]

\* a handler's work: a check of a text, or a suggest for a word
Tasks ==
    {CheckTask(t, NoWord) : t \in BridgeTexts} \cup {SuggestTask(w) : w \in BridgeWords}

\* the task t, run by scheduler thread th
OnThread(t, th) ==
    [kind |-> t.kind, arg |-> t.arg, cands |-> t.cands, insert |-> t.insert, thread |-> th]

\* the documents one handler checks while the others check the three-letter word
CheckTexts ==
    { <<"a", "a", "a", "a">>,
      <<"B", "a", "a", "a">>,
      <<"a", "a", "oe", "B", "oe", "oe">>,
      <<"oe", "oe", "oe", "oe", "oe", "B", "oe", "oe", "_", "oe", "oe">>,
      <<"i", "m", "p", "l">>,
      <<"I", "m", "p", "l">>,
      <<"i", "m", "p", "l", "B", "a", "a", "a", Newline, "a", Quote, "a", "a">> }
OtherText == <<"B", "oe", "oe">>

\* the words add_to_dict is called with
AddWords == { <<"B", "OE", "oe">> }

\* the work of the handler that checks one of CheckTexts: did_open or did_save,
\* or add_to_dict with a word to insert first
CheckTasks ==
    {CheckTask(t, ins) : t \in CheckTexts, ins \in {NoWord} \cup {Some(w) : w \in AddWords}}

\* the words the one code action asks suggestions for
SuggestWords == { <<"a", "a", "oe">>, <<"oe", "oe", "l">>, <<"a">> }

\* the most suggestions the suggest worker replies with
MaxSuggestions == 6

\* the Hunspell instances a worker builds, one per configured dictionary, in
\* the order of the configuration
checkers == <<1, 2>>

\* Hunspell::check(word) == CheckResult::FoundInDictionary
found_in_dictionary(c, word) == word \in DictWords(c)

\* the check worker asking only its first dictionary
any_found_first_only(cs, word) == cs # <<>> /\ found_in_dictionary(Head(cs), word)

RECURSIVE any_found(_, _)
\* checkers.iter().any(|c| c.check(&word) == FoundInDictionary): the checkers
\* are asked in order, up to the first that finds the word
any_found(cs, word) ==
    IF cs = <<>> THEN FALSE
    ELSE IF found_in_dictionary(Head(cs), word) THEN TRUE
    ELSE any_found(Tail(cs), word)

\* the check worker's verdict on a word
CheckVerdict(word) == any_found(checkers, word)

\* the strings the suggest worker's HashSet holds for a word: those of all
\* checkers with s.len() > 2
SuggestSet(word) ==
    {s \in UNION {{DictSuggest(d, word)[i] : i \in 1..Len(DictSuggest(d, word))} : d \in Dicts} :
        String_len(s) > 2}

\* the lists take(6) can make of a HashSet, which iterates in no fixed order
TakeFrom(S) ==
    LET n == IF Cardinality(S) < MaxSuggestions THEN Cardinality(S) ELSE MaxSuggestions
    IN {q \in [1..n -> S] : \A i, j \in 1..n : i # j => q[i] # q[j]}

NoOneshot == [state |-> "none", value |-> None]

\* a recv that hands out the newest request of the queue
recv_newest(q) == [req |-> q[Len(q)], rest |-> SubSeq(q, 1, Len(q) - 1)]

\* mpsc::Receiver::recv on a queue that holds a request: the oldest one
recv(q) == [req |-> Head(q), rest |-> Tail(q)]

\* spell_check failing closed: unwrap_or(false)
spell_check_recv_fails_closed(o) == IF o.state = "sent" THEN o.value ELSE FALSE

\* oneshot Receiver::recv().unwrap_or(true) of Backend::spell_check
spell_check_recv(o) == IF o.state = "sent" THEN o.value ELSE TRUE

\* oneshot Receiver::recv().unwrap_or(vec![]) of Backend::suggest
suggest_recv(o) == IF o.state = "sent" THEN o.value ELSE <<>>

\* the oneshot Senders of the requests in reqs are dropped without a value
DropSenders(os, reqs) ==
    [c \in Callers |->
        IF \E i \in 1..Len(reqs) : reqs[i].caller = c
        THEN [state |-> "dropped", value |-> None]
        ELSE os[c]]

\* no text is stored for the document
NoSource == [some |-> FALSE, v |-> <<>>]

\* the Backend with src stored for the document: no channel yet, no worker,
\* an empty local dictionary
InitBackend(src) ==
    /\ initPc = "new"
    /\ checker = None
    /\ suggester = None
    /\ chan = [k \in {"check", "suggest"} |-> [rx |-> "none", queue |-> <<>>]]
    /\ worker = [k \in {"check", "suggest"} |-> [state |-> "unspawned", req |-> None]]
    /\ local_dict = {}
    /\ sources = src

\* the Backend as main constructs it
InitBridgeVars == InitBackend(NoSource)

\* a handler of the given command that has not read or reported anything yet
Handler(cmd) == [cmd |-> cmd, pass |-> 1, read |-> <<>>, reported |-> <<>>]

\* handlers that have their source in hand: spell_check_uri after its get, or
\* add_to_dict with the word to insert first
InitCallerVars(ts) ==
    /\ task = ts
    /\ handler = [c \in Callers |-> Handler("spell_check_uri")]
    /\ pc = [c \in Callers |-> IF ts[c].insert.some THEN "insert" ELSE "ready"]
    /\ cursor = [c \in Callers |-> 0]
    /\ findings = [c \in Callers |-> <<>>]
    /\ suggestions = [c \in Callers |-> None]
    /\ oneshot = [c \in Callers |-> NoOneshot]
    /\ outcomes = [c \in Callers |-> <<>>]
    /\ arrived = [k \in {"check", "suggest"} |-> <<>>]
    /\ answered = [k \in {"check", "suggest"} |-> <<>>]

\* Backend::start_spellchecker up to its first await: the suggest channel is
\* made and its Sender installed
StartSuggester ==
    /\ initPc = "new"
    /\ initPc' = "resolving"
    /\ suggester' = "Sender"
    /\ chan' = [chan EXCEPT !["suggest"].rx = "held"]
    /\ UNCHANGED <<checker, worker, local_dict, sources, lexVars, peekVars, callerVars>>

\* Backend::start_spellchecker after the dictionaries are resolved: the suggest
\* worker is spawned, the check channel made and installed, the check worker spawned
StartWorkers ==
    /\ initPc = "resolving"
    /\ initPc' = "started"
    /\ checker' = "Sender"
    /\ chan' = [chan EXCEPT !["check"].rx = "held"]
    /\ worker' = [k \in {"check", "suggest"} |-> [state |-> "idle", req |-> None]]
    /\ UNCHANGED <<suggester, local_dict, sources, lexVars, peekVars, callerVars>>

\* one thread serving both channels: a request is taken only while neither
\* loop has one in hand
WorkerRecv_shared_thread(k) ==
    /\ \A j \in {"check", "suggest"} : worker[j].state = "idle"
    /\ chan[k].queue # <<>>
    /\ LET r == recv(chan[k].queue) IN
       /\ worker' = [worker EXCEPT ![k] = [state |-> "busy", req |-> r.req]]
       /\ chan' = [chan EXCEPT ![k].queue = r.rest]
    /\ UNCHANGED <<initPc, checker, suggester, local_dict, sources, lexVars, peekVars, callerVars>>

\* a worker's while-let takes the next request off its channel
WorkerRecv(k) ==
    /\ worker[k].state = "idle"
    /\ chan[k].queue # <<>>
    /\ LET r == recv(chan[k].queue) IN
       /\ worker' = [worker EXCEPT ![k] = [state |-> "busy", req |-> r.req]]
       /\ chan' = [chan EXCEPT ![k].queue = r.rest]
    /\ UNCHANGED <<initPc, checker, suggester, local_dict, sources, lexVars, peekVars, callerVars>>

\* the check worker computes its verdict and sends it on the request's oneshot
CheckWorkerReply ==
    /\ worker["check"].state = "busy"
    /\ LET req == worker["check"].req IN
       /\ oneshot' = [oneshot EXCEPT ![req.caller] =
                         [state |-> "sent", value |-> CheckVerdict(req.word)]]
       /\ answered' = [answered EXCEPT !["check"] = Append(@, req)]
    /\ worker' = [worker EXCEPT !["check"] = [state |-> "idle", req |-> None]]
    /\ UNCHANGED <<initPc, checker, suggester, chan, local_dict, sources, lexVars, peekVars,
                   task, handler, pc, cursor, findings, suggestions, outcomes, arrived>>

\* the suggest worker computes its list and sends it on the request's oneshot
SuggestWorkerReply ==
    /\ worker["suggest"].state = "busy"
    /\ LET req == worker["suggest"].req IN
       \E list \in TakeFrom(SuggestSet(req.word)) :
          /\ oneshot' = [oneshot EXCEPT ![req.caller] = [state |-> "sent", value |-> list]]
          /\ answered' = [answered EXCEPT !["suggest"] = Append(@, req)]
    /\ worker' = [worker EXCEPT !["suggest"] = [state |-> "idle", req |-> None]]
    /\ UNCHANGED <<initPc, checker, suggester, chan, local_dict, sources, lexVars, peekVars,
                   task, handler, pc, cursor, findings, suggestions, outcomes, arrived>>

\* a worker thread ends (a panic in Hunspell::new or in the engine): its
\* Receiver, the requests still queued and the request it holds are dropped
WorkerDies(k) ==
    /\ worker[k].state \in {"idle", "busy"}
    /\ worker' = [worker EXCEPT ![k] = [state |-> "dead", req |-> None]]
    /\ chan' = [chan EXCEPT ![k] = [rx |-> "dropped", queue |-> <<>>]]
    /\ oneshot' = DropSenders(oneshot,
                              chan[k].queue \o
                              (IF worker[k].state = "busy" THEN <<worker[k].req>> ELSE <<>>))
    /\ UNCHANGED <<initPc, checker, suggester, local_dict, sources, lexVars, peekVars,
                   task, handler, pc, cursor, findings, suggestions, outcomes, arrived, answered>>

\* handler d is in the middle of its synchronous part: between its first step
\* and its return there is no await, and recv blocks its thread
Holds(d) ==
    \/ pc[d] = "waiting"
    \/ pc[d] = "ready" /\ (cursor[d] > 0 \/ task[d].insert.some)

\* no other handler of the scheduler thread of c is in its synchronous part
ThreadFree(c) ==
    \A d \in Callers \ {c} : task[d].thread = task[c].thread => ~Holds(d)

\* Backend::add_to_dict up to its spell_check_uri: insert_into_local_dict, that
\* is LocalDictionary::insert of the lowercased word. The handler goes on to
\* spell_check_uri, whose get of the source is a step of its own when the
\* sources are modelled.
AddToDict(c) ==
    /\ pc[c] = "insert"
    /\ ThreadFree(c)
    /\ local_dict' = local_dict \cup {to_lowercase(task[c].insert.v)}
    /\ pc' = [pc EXCEPT ![c] = IF handler[c].cmd = "add_to_dict" THEN "get" ELSE "ready"]
    /\ UNCHANGED <<initPc, checker, suggester, chan, worker, sources, lexVars, peekVars,
                   task, handler, cursor, findings, suggestions, oneshot, outcomes, arrived, answered>>

\* Backend::spell_check or Backend::suggest up to its blocking recv: unwrap the
\* installed Sender and send (word, oneshot Sender) on it
SendRequest(c, k, sender, word) ==
    IF sender = None
    THEN /\ pc' = [pc EXCEPT ![c] = "panicked"]
         /\ UNCHANGED <<chan, oneshot, arrived>>
    ELSE /\ pc' = [pc EXCEPT ![c] = "waiting"]
         /\ IF chan[k].rx = "held"
            THEN /\ chan' = [chan EXCEPT ![k].queue =
                                Append(@, [caller |-> c, n |-> Len(outcomes[c]) + 1,
                                           word |-> word])]
                 /\ oneshot' = [oneshot EXCEPT ![c] = [state |-> "open", value |-> None]]
                 /\ arrived' = [arrived EXCEPT ![k] =
                                   Append(@, [caller |-> c, n |-> Len(outcomes[c]) + 1,
                                              word |-> word])]
            ELSE /\ oneshot' = [oneshot EXCEPT ![c] = [state |-> "dropped", value |-> None]]
                 /\ UNCHANGED <<chan, arrived>>

\* Backend::misspelled_tokens reaches its spell_check filter with the next
\* candidate token, or has no token left and returns
CheckSend(c) ==
    /\ task[c].kind = "check"
    /\ pc[c] = "ready"
    /\ ThreadFree(c)
    /\ LET cands == task[c].cands IN
       IF cursor[c] = Len(cands)
       THEN /\ pc' = [pc EXCEPT ![c] = "done"]
            /\ UNCHANGED <<chan, oneshot, arrived>>
       ELSE SendRequest(c, "check", checker, cands[cursor[c] + 1].lexeme)
    /\ UNCHANGED <<initPc, checker, suggester, worker, local_dict, sources, lexVars, peekVars,
                   task, handler, cursor, findings, suggestions, outcomes, answered>>

\* the filter chain inserting into the local dictionary each word the check
\* worker knows
CheckRecv_learns(c) ==
    /\ task[c].kind = "check"
    /\ pc[c] = "waiting"
    /\ oneshot[c].state \in {"sent", "dropped"}
    /\ LET tok == task[c].cands[cursor[c] + 1]
           known == spell_check_recv(oneshot[c])
       IN /\ findings' = [findings EXCEPT ![c] =
                             IF ~known /\ ~LocalDictionary_contains(local_dict, tok.lexeme)
                             THEN Append(@, tok) ELSE @]
          /\ outcomes' = [outcomes EXCEPT ![c] =
                             Append(@, [word |-> tok.lexeme, how |-> oneshot[c].state,
                                        result |-> known])]
          /\ local_dict' = IF known THEN local_dict \cup {to_lowercase(tok.lexeme)}
                                    ELSE local_dict
    /\ cursor' = [cursor EXCEPT ![c] = @ + 1]
    /\ pc' = [pc EXCEPT ![c] = "ready"]
    /\ oneshot' = [oneshot EXCEPT ![c] = NoOneshot]
    /\ UNCHANGED <<initPc, checker, suggester, chan, worker, sources, lexVars, peekVars,
                   task, handler, suggestions, arrived, answered>>

\* Backend::spell_check returns from its recv, and the token goes through the
\* rest of the filter chain of Backend::misspelled_tokens
CheckRecv(c) ==
    /\ task[c].kind = "check"
    /\ pc[c] = "waiting"
    /\ oneshot[c].state \in {"sent", "dropped"}
    /\ LET tok == task[c].cands[cursor[c] + 1]
           known == spell_check_recv(oneshot[c])
       IN /\ findings' = [findings EXCEPT ![c] =
                             IF ~known /\ ~LocalDictionary_contains(local_dict, tok.lexeme)
                             THEN Append(@, tok) ELSE @]
          /\ outcomes' = [outcomes EXCEPT ![c] =
                             Append(@, [word |-> tok.lexeme, how |-> oneshot[c].state,
                                        result |-> known])]
    /\ cursor' = [cursor EXCEPT ![c] = @ + 1]
    /\ pc' = [pc EXCEPT ![c] = "ready"]
    /\ oneshot' = [oneshot EXCEPT ![c] = NoOneshot]
    /\ UNCHANGED <<bridgeVars, lexVars, peekVars, task, handler, suggestions, arrived, answered>>

\* Backend::suggest up to its blocking recv
SuggestSend(c) ==
    /\ task[c].kind = "suggest"
    /\ pc[c] = "ready"
    /\ ThreadFree(c)
    /\ SendRequest(c, "suggest", suggester, task[c].arg)
    /\ UNCHANGED <<initPc, checker, suggester, worker, local_dict, sources, lexVars, peekVars,
                   task, handler, cursor, findings, suggestions, outcomes, answered>>

\* Backend::suggest returns from its recv
SuggestRecvReply(c) ==
    /\ task[c].kind = "suggest"
    /\ pc[c] = "waiting"
    /\ oneshot[c].state \in {"sent", "dropped"}
    /\ suggestions' = [suggestions EXCEPT ![c] = suggest_recv(oneshot[c])]
    /\ outcomes' = [outcomes EXCEPT ![c] =
                       Append(@, [word |-> task[c].arg, how |-> oneshot[c].state,
                                  result |-> suggest_recv(oneshot[c])])]
    /\ pc' = [pc EXCEPT ![c] = "done"]
    /\ oneshot' = [oneshot EXCEPT ![c] = NoOneshot]
    /\ UNCHANGED <<bridgeVars, lexVars, peekVars, task, handler, cursor, findings, arrived, answered>>

\* ------------------------------------------- Backend: the stored document
\* the texts the document has: three candidates (two unknown, one with an
\* uppercase letter), or one unknown word
DocTexts ==
    { <<"a", "a", "oe", "B", "oe", "oe", "_", "a", "a", "a", "a">>,
      <<"oe", "oe", "a">> }

\* did_open and did_save up to their spell_check_uri: the text of the
\* notification is stored under the document's Url
DidSave(c) ==
    /\ pc[c] = "store"
    /\ sources' = Some(task[c].arg)
    /\ pc' = [pc EXCEPT ![c] = "get"]
    /\ UNCHANGED <<initPc, checker, suggester, chan, worker, local_dict, lexVars, peekVars,
                   task, handler, cursor, findings, suggestions, oneshot, outcomes,
                   arrived, answered>>

\* self.sources.get(&uri) of spell_check_uri and of add_all_to_dict: without a
\* stored text the handler returns; with one, misspelled_tokens starts on it
SourcesGet(c) ==
    /\ pc[c] = "get"
    /\ IF ~sources.some
       THEN /\ pc' = [pc EXCEPT ![c] = "returned"]
            /\ UNCHANGED <<task, handler, cursor, findings>>
       ELSE /\ pc' = [pc EXCEPT ![c] = "ready"]
            /\ task' = [task EXCEPT ![c].arg = sources.v,
                                    ![c].cands = candidate_tokens(sources.v)]
            /\ handler' = [handler EXCEPT ![c].read = Append(@, sources.v)]
            /\ cursor' = [cursor EXCEPT ![c] = 0]
            /\ findings' = [findings EXCEPT ![c] = <<>>]
    /\ UNCHANGED <<bridgeVars, lexVars, peekVars, suggestions, oneshot, outcomes, arrived, answered>>

\* misspelled_words of add_all_to_dict keeping only the first token's lexeme
misspelled_words_first_only(ts) == IF ts = <<>> THEN {} ELSE {ts[1].lexeme}

\* misspelled_words of add_all_to_dict: the lexemes of the misspelled tokens,
\* collected into a HashSet
misspelled_words(ts) == {ts[i].lexeme : i \in 1..Len(ts)}

\* add_all_to_dict between its misspelled_tokens and its spell_check_uri:
\* insert_into_local_dict for every misspelled word
AddAllToDict(c) ==
    /\ handler[c].cmd = "add_all_to_dict" /\ handler[c].pass = 1
    /\ pc[c] = "done"
    /\ local_dict' = local_dict \cup {to_lowercase(w) : w \in misspelled_words(findings[c])}
    /\ handler' = [handler EXCEPT ![c].pass = 2, ![c].reported = findings[c]]
    /\ pc' = [pc EXCEPT ![c] = "get"]
    /\ UNCHANGED <<initPc, checker, suggester, chan, worker, sources, lexVars, peekVars,
                   task, cursor, findings, suggestions, oneshot, outcomes, arrived, answered>>

\* --------------------------------------- Backend: replace_word_in_source
\* the suggestions a replace.with.word command carries: shorter than, as long
\* as and longer than a diagnosed word of four letters
ReplaceWords ==
    { <<"a", "a", "a">>, <<"B", "a", "a", "a">>, <<"a", "a", "a", "a", "a">> }

\* the work of a handler that runs replace.with.word with the word w
ReplaceTask(w) == [kind |-> "replace", arg |-> w, cands |-> <<>>, insert |-> NoWord]

\* the byte offset behind the first k characters of the Rope t
byte_of_char(t, k) == String_len(SubSeq(t, 1, k))

\* Rope::byte_of_line: the byte offset at which line begins, behind its
\* line-th newline
byte_of_line(t, line) ==
    IF line = 0 THEN 0
    ELSE LET k == CHOOSE i \in 1..Len(t) :
                      /\ t[i] = Newline
                      /\ Cardinality({j \in 1..i : t[j] = Newline}) = line
         IN byte_of_char(t, k)

\* str::is_char_boundary on the bytes of t
is_char_boundary(t, b) == \E k \in 0..Len(t) : byte_of_char(t, k) = b

\* Rope::replace(start..end, word): the bytes from start to end give way to
\* word; it panics when end is past the last byte or when start or end is
\* inside a character
Rope_replace(t, start, end, word) ==
    IF end > String_len(t) \/ ~is_char_boundary(t, start) \/ ~is_char_boundary(t, end)
    THEN [panicked |-> TRUE, text |-> t]
    ELSE LET ks == CHOOSE k \in 0..Len(t) : byte_of_char(t, k) = start
             ke == CHOOSE k \in 0..Len(t) : byte_of_char(t, k) = end
         IN [panicked |-> FALSE,
             text |-> SubSeq(t, 1, ks) \o word \o SubSeq(t, ke + 1, Len(t))]

\* Backend::replace_word_in_source on the stored text t, for the range of a
\* diagnostic (its start line and character) and the replacement word
replace_word_in_source(t, range, word) ==
    LET start == byte_of_line(t, range.start.line) + range.start.col
        end == start + String_len(word)
    IN Rope_replace(t, start, end, word)

\* the tokens of the Lexer that pass the first length filter of
\* misspelled_tokens: the words a diagnostic can be about
Diagnosable(ts) == {ts[i] : i \in {j \in 1..Len(ts) : String_len(ts[j].lexeme) > MinLexemeLen}}

\* Backend::replace_with_word up to its spell_check_uri, run from a code action
\* on the diagnostic of the token tok, with the suggestion w: the command's
\* arguments are the diagnostic's range and w. A panic of Rope::replace ends
\* the handler with the stored text as it was.
ReplaceWithWord(c) ==
    /\ handler[c].cmd = "replace_with_word"
    /\ pc[c] = "ready"
    /\ exhausted
    /\ sources.some
    /\ \E tok \in Diagnosable(tokens), w \in ReplaceWords :
          LET r == replace_word_in_source(sources.v, [start |-> tok.start, end |-> tok.end], w)
          IN /\ task' = [task EXCEPT ![c].arg = w]
             /\ handler' = [handler EXCEPT ![c].reported = <<tok>>]
             /\ sources' = Some(r.text)
             /\ pc' = [pc EXCEPT ![c] = IF r.panicked THEN "panicked" ELSE "get"]
    /\ UNCHANGED <<initPc, checker, suggester, chan, worker, local_dict, lexVars, peekVars,
                   cursor, findings, suggestions, oneshot, outcomes, arrived, answered>>

\* ---------------------------------------------------------- specifications
InitLexIdle == InitLexFor(<<>>)

\* no direct call has been made on a BufferedPeekable
InitPeekFor(items, buf_size) ==
    /\ peekable = BufferedPeekable_new(items, buf_size)
    /\ returned = <<>>
    /\ last_call = [op |-> "new", idx |-> 0, item |-> None, rest |-> items, buffer |-> <<>>]

InitPeekIdle == InitPeekFor(<<>>, ExpanderBufSize)

InitBridgeIdle ==
    /\ InitPeekIdle
    /\ InitBridgeVars
    /\ InitCallerVars([c \in Callers |-> OnThread(CheckTask(<<>>, NoWord), c)])

\* a text of any characters is lexed, and each token expanded
Init == (\E t \in SeqsUpTo(Chars, MaxTextLen) : InitLexFor(t)) /\ InitBridgeIdle

\* a text of letters and quotes is lexed, and each token expanded
InitExpand == (\E t \in SeqsUpTo(WordChars, MaxWordLen) : InitLexFor(t)) /\ InitBridgeIdle

Next ==
    \/ LexerIterNext /\ UNCHANGED <<bridgeVars, callerVars, peekVars>>
    \/ ExpandPulled /\ UNCHANGED <<bridgeVars, callerVars, peekVars>>

Spec == Init /\ [][Next]_vars
SpecExpand == InitExpand /\ [][Next]_vars

\* the Lexer drained by collect, which keeps calling next until it returns None
NextDrain == LexerPull /\ UNCHANGED <<bridgeVars, callerVars, peekVars>>

SpecDrain == Init /\ [][NextDrain]_vars /\ WF_vars(NextDrain)

\* the Backend as main constructs it, and callers that check texts and ask for
\* suggestions while start_spellchecker runs and after it, each handler on a
\* scheduler thread of its own
InitBridge ==
    /\ InitLexIdle /\ InitPeekIdle
    /\ InitBridgeVars
    /\ \E ts \in [Callers -> Tasks] : InitCallerVars([c \in Callers |-> OnThread(ts[c], c)])

NextBridge ==
    \/ StartSuggester
    \/ StartWorkers
    \/ \E k \in {"check", "suggest"} : WorkerRecv(k)
    \/ CheckWorkerReply
    \/ SuggestWorkerReply
    \/ \E k \in {"check", "suggest"} : WorkerDies(k)
    \/ \E c \in Callers : CheckSend(c)
    \/ \E c \in Callers : CheckRecv(c)
    \/ \E c \in Callers : SuggestSend(c)
    \/ \E c \in Callers : SuggestRecvReply(c)

SpecBridge == InitBridge /\ [][NextBridge]_vars

\* caller 1 asks for suggestions and caller 2 checks a text; further callers
\* check an empty document
InitWorkers ==
    /\ InitLexIdle /\ InitPeekIdle
    /\ InitBridgeVars
    /\ \E w \in BridgeWords, t \in BridgeTexts :
          InitCallerVars([c \in Callers |->
              OnThread(IF c = 1 THEN SuggestTask(w)
                       ELSE IF c = 2 THEN CheckTask(t, NoWord)
                       ELSE CheckTask(<<>>, NoWord), c)])

\* the handlers and the workers, with the check worker's thread running
\* whenever it can take a step; nothing is assumed of the suggest worker, which
\* may compute for ever
SpecWorkers ==
    /\ InitWorkers /\ [][NextBridge]_vars
    /\ WF_vars(WorkerRecv("check")) /\ WF_vars(CheckWorkerReply)

\* one handler checks a document of CheckTexts, after an insert into the local
\* dictionary or without one, while the other handlers check OtherText
InitCheck ==
    /\ InitLexIdle /\ InitPeekIdle
    /\ InitBridgeVars
    /\ \E t \in CheckTasks :
          InitCallerVars([c \in Callers |->
              OnThread(IF c = 1 THEN t ELSE CheckTask(OtherText, NoWord), c)])

NextCheck ==
    \/ StartSuggester
    \/ StartWorkers
    \/ WorkerRecv("check")
    \/ CheckWorkerReply
    \/ \E k \in {"check", "suggest"} : WorkerDies(k)
    \/ \E c \in Callers : AddToDict(c)
    \/ \E c \in Callers : CheckSend(c)
    \/ \E c \in Callers : CheckRecv(c)

SpecCheck == InitCheck /\ [][NextCheck]_vars

\* one handler asks suggestions for a word of SuggestWords; the other handlers
\* have an empty document to check and are not scheduled
InitSuggest ==
    /\ InitLexIdle /\ InitPeekIdle
    /\ InitBridgeVars
    /\ \E w \in SuggestWords :
          InitCallerVars([c \in Callers |->
              OnThread(IF c = 1 THEN SuggestTask(w) ELSE CheckTask(<<>>, NoWord), c)])

NextSuggest ==
    \/ StartSuggester
    \/ StartWorkers
    \/ WorkerRecv("suggest")
    \/ SuggestWorkerReply
    \/ \E k \in {"check", "suggest"} : WorkerDies(k)
    \/ \E c \in Callers : SuggestSend(c)
    \/ \E c \in Callers : SuggestRecvReply(c)

SpecSuggest == InitSuggest /\ [][NextSuggest]_vars

\* the handlers of one document, each on a scheduler thread of its own: caller 1
\* runs add.all.to.dict, caller 2 a did_save with a text of DocTexts or an
\* add.to.dict; further callers have returned. The document is not open, or has
\* the first text of DocTexts.
DocHandlers ==
    {[cmd |-> "did_save", arg |-> t, insert |-> NoWord] : t \in DocTexts}
    \cup {[cmd |-> "add_to_dict", arg |-> <<>>, insert |-> Some(w)] : w \in AddWords}

InitDoc ==
    /\ InitLexIdle /\ InitPeekIdle
    /\ \E src \in {NoSource, Some(<<"a", "a", "oe", "B", "oe", "oe", "_", "a", "a", "a", "a">>)} :
          InitBackend(src)
    /\ \E h \in DocHandlers :
          /\ task = [c \in Callers |->
                        OnThread(CheckTask(IF c = 2 THEN h.arg ELSE <<>>,
                                           IF c = 2 THEN h.insert ELSE NoWord), c)]
          /\ handler = [c \in Callers |->
                           Handler(IF c = 1 THEN "add_all_to_dict"
                                   ELSE IF c = 2 THEN h.cmd ELSE "none")]
          /\ pc = [c \in Callers |->
                      IF c = 1 THEN "get"
                      ELSE IF c = 2 THEN (IF h.cmd = "did_save" THEN "store" ELSE "insert")
                      ELSE "returned"]
    /\ cursor = [c \in Callers |-> 0]
    /\ findings = [c \in Callers |-> <<>>]
    /\ suggestions = [c \in Callers |-> None]
    /\ oneshot = [c \in Callers |-> NoOneshot]
    /\ outcomes = [c \in Callers |-> <<>>]
    /\ arrived = [k \in {"check", "suggest"} |-> <<>>]
    /\ answered = [k \in {"check", "suggest"} |-> <<>>]

NextDoc ==
    \/ StartSuggester
    \/ StartWorkers
    \/ WorkerRecv("check")
    \/ CheckWorkerReply
    \/ WorkerDies("check")
    \/ \E c \in Callers : DidSave(c)
    \/ \E c \in Callers : SourcesGet(c)
    \/ \E c \in Callers : AddToDict(c)
    \/ \E c \in Callers : AddAllToDict(c)
    \/ \E c \in Callers : CheckSend(c)
    \/ \E c \in Callers : CheckRecv(c)

SpecDoc == InitDoc /\ [][NextDoc]_vars

\* a document of any characters is stored and lexed for its diagnostics, and
\* caller 1 then runs replace.with.word on one of them; further callers have
\* returned
InitReplace ==
    /\ InitPeekIdle
    /\ \E t \in SeqsUpTo(Chars, MaxTextLen) : InitLexFor(t) /\ InitBackend(Some(t))
    /\ task = [c \in Callers |->
                  OnThread(IF c = 1 THEN ReplaceTask(<<>>) ELSE CheckTask(<<>>, NoWord), c)]
    /\ handler = [c \in Callers |-> Handler(IF c = 1 THEN "replace_with_word" ELSE "none")]
    /\ pc = [c \in Callers |-> IF c = 1 THEN "ready" ELSE "returned"]
    /\ cursor = [c \in Callers |-> 0]
    /\ findings = [c \in Callers |-> <<>>]
    /\ suggestions = [c \in Callers |-> None]
    /\ oneshot = [c \in Callers |-> NoOneshot]
    /\ outcomes = [c \in Callers |-> <<>>]
    /\ arrived = [k \in {"check", "suggest"} |-> <<>>]
    /\ answered = [k \in {"check", "suggest"} |-> <<>>]

NextReplace ==
    \/ LexerPull /\ UNCHANGED <<bridgeVars, callerVars, peekVars>>
    \/ \E c \in Callers : ReplaceWithWord(c)

SpecReplace == InitReplace /\ [][NextReplace]_vars

\* ------------------------------------ direct calls on a BufferedPeekable
\* the items an underlying iterator yields: two that differ, so that order shows
PeekItems == {"a", "B"}

\* what the BufferedPeekable still holds: its buffer, then its iterator
Remaining(bp) == bp.buffer \o bp.iter

\* a call of kind op, with index idx, that returned r
Called(op, idx, r) ==
    [op |-> op, idx |-> idx, item |-> r.item, rest |-> Remaining(peekable),
     buffer |-> peekable.buffer]

\* a caller calls next
CallNext ==
    LET r == BufferedPeekable_next(peekable) IN
    /\ peekable' = r.bp
    /\ returned' = IF r.item = None THEN returned ELSE Append(returned, r.item)
    /\ last_call' = Called("next", 0, r)
    /\ UNCHANGED <<lexVars, bridgeVars, callerVars>>

\* a caller calls peek
CallPeek ==
    LET r == peek(peekable) IN
    /\ peekable' = r.bp
    /\ last_call' = Called("peek", 0, r)
    /\ UNCHANGED <<returned, lexVars, bridgeVars, callerVars>>

\* a caller calls peek_at(idx)
CallPeekAt(idx) ==
    LET r == peek_at(peekable, idx) IN
    /\ peekable' = r.bp
    /\ last_call' = Called("peek_at", idx, r)
    /\ UNCHANGED <<returned, lexVars, bridgeVars, callerVars>>

\* a BufferedPeekable of any buffer size over any items; text keeps the items
InitPeek ==
    /\ \E t \in SeqsUpTo(PeekItems, MaxTextLen), n \in 0..MaxBufSize :
           InitLexFor(t) /\ InitPeekFor(t, n)
    /\ InitBridgeVars
    /\ InitCallerVars([c \in Callers |-> OnThread(CheckTask(<<>>, NoWord), c)])

NextPeek ==
    \/ CallNext
    \/ CallPeek
    \/ \E idx \in 0..MaxBufSize : CallPeekAt(idx)

SpecPeek == InitPeek /\ [][NextPeek]_vars

\* the same, with every handler on the one scheduler thread 1
InitSched ==
    /\ InitLexIdle /\ InitPeekIdle
    /\ InitBridgeVars
    /\ \E ts \in [Callers -> Tasks] : InitCallerVars([c \in Callers |-> OnThread(ts[c], 1)])

SpecSched == InitSched /\ [][NextBridge]_vars

\* ------------------------------------------------ properties of the Lexer
RECURSIVE SumOver(_, _, _)
\* f[from] + ... + f[to]
SumOver(f, from, to) == IF from > to THEN 0 ELSE f[from] + SumOver(f, from + 1, to)

Max(S) == CHOOSE x \in S : \A y \in S : y <= x

\* the UTF-16 code units of a character: 1 in the Basic Multilingual Plane, 2 above it
RefUnits(c) == IF CodePoint(c) <= 65535 THEN 1 ELSE 2

\* the position after the first k characters of t: the newlines among them,
\* and the code units since the last of these newlines
RefPosAt(t, k) ==
    LET nls == {i \in 1..k : t[i] = Newline}
        bol == Max(nls \cup {0})
    IN Pos(Cardinality(nls), SumOver([i \in 1..Len(t) |-> RefUnits(t[i])], bol + 1, k))

\* the maximal runs of t's word positions (those i with inWord(i)), each as the
\* offsets [from, upto] it lies between, in source order
RunsOf(t, inWord(_)) ==
    LET starts == {i \in 1..Len(t) : inWord(i) /\ (i = 1 \/ ~inWord(i - 1))}
        ends == {j \in 1..Len(t) : inWord(j) /\ (j = Len(t) \/ ~inWord(j + 1))}
        nth[n \in 1..Cardinality(starts)] ==
            LET i == CHOOSE x \in starts : Cardinality({y \in starts : y < x}) = n - 1
            IN [from |-> i - 1, upto |-> CHOOSE j \in ends : j >= i /\ \A y \in ends : y >= i => j <= y]
    IN nth

\* the maximal runs of accepted letters of t
LetterRuns(t) == LET inWord(i) == is_accepted_char(t[i]) IN RunsOf(t, inWord)

\* the runs of t when a single quote between two accepted letters is part of the word
QuotedRuns(t) ==
    LET inWord(i) == \/ is_accepted_char(t[i])
                     \/ /\ t[i] = Quote /\ 1 < i /\ i < Len(t)
                        /\ is_accepted_char(t[i - 1]) /\ is_accepted_char(t[i + 1])
    IN RunsOf(t, inWord)

Slice(t, run) == SubSeq(t, run.from + 1, run.upto)

Lexemes(ts) == [i \in 1..Len(ts) |-> ts[i].lexeme]

HasQuote(t) == \E i \in 1..Len(t) : t[i] = Quote

\* C1: on a text without a single quote the Lexer emits one token per maximal
\* run of accepted letters, in source order, and each lexeme is that run: the
\* tokens emitted so far are the first runs, and all of them once it is exhausted.
C1_OneTokenPerRun ==
    ~HasQuote(text) =>
        LET runs == LetterRuns(text) IN
        /\ Len(tokens) <= Len(runs)
        /\ \A i \in 1..Len(tokens) :
              /\ tokens[i].lexeme = Slice(text, runs[i])
              /\ spans[i] = runs[i]
        /\ exhausted => Len(tokens) = Len(runs)

\* C1 happens: a text without quotes, lexed to its end, with two runs that a
\* non-letter separates and a non-letter before the first
C1_Witness ==
    /\ exhausted /\ ~HasQuote(text)
    /\ Len(tokens) = 2
    /\ text[1] = "_"
    /\ Len(tokens[2].lexeme) = 1

\* C2: start is the position before the first character of the lexeme and end
\* the position after its last accepted character, for every token.
C2_TokenSpan ==
    \A i \in 1..Len(tokens) :
        /\ tokens[i].start = RefPosAt(text, spans[i].from)
        /\ tokens[i].end = RefPosAt(text, spans[i].upto)

\* C3: the column advances by the UTF-16 code units of each character consumed:
\* the Lexer's position, and the start of every token, is the sum of the units
\* of the characters before it on its line.
C3_ColumnUnits ==
    /\ Lexer_pos(lx) = RefPosAt(text, lx.offset)
    /\ \A i \in 1..Len(tokens) : tokens[i].start = RefPosAt(text, spans[i].from)

\* C3 happens: a token starts at column 3 behind a letter and a character
\* outside the Basic Multilingual Plane
C3_Witness ==
    \E i \in 1..Len(tokens) :
        /\ spans[i].from = 2
        /\ text[1] = "a" /\ text[2] = "U10400"
        /\ tokens[i].start = Pos(0, 3)

\* C10: a single quote met in a run is kept exactly when an accepted letter
\* follows it, else it is dropped and the token ends there; a quote with no
\* letter of the run before it starts nothing: the lexemes are the runs of
\* letters and of quotes between two letters.
C10_QuoteRule ==
    LET runs == QuotedRuns(text) IN
    /\ Len(tokens) <= Len(runs)
    /\ \A i \in 1..Len(tokens) : tokens[i].lexeme = Slice(text, runs[i])
    /\ exhausted => Len(tokens) = Len(runs)

\* a lexeme of accepted letters and single quotes, each quote between two letters
WellFormedLexeme(s) ==
    /\ s # <<>>
    /\ \A i \in 1..Len(s) :
          \/ is_accepted_char(s[i])
          \/ /\ s[i] = Quote /\ 1 < i /\ i < Len(s)
             /\ is_accepted_char(s[i - 1]) /\ is_accepted_char(s[i + 1])

\* C11: every token the Lexer emits has a non-empty lexeme of accepted letters
\* and single quotes, and each quote in it stands directly between two accepted
\* letters (so it is neither first nor last).
C11_LexemeWellFormed == \A i \in 1..Len(tokens) : WellFormedLexeme(tokens[i].lexeme)

\* C11 happens: on a text with a quote inside a word and a quote after it the
\* token keeps only the inner quote
C11_Witness ==
    /\ exhausted
    /\ text = <<"a", Quote, "B", Quote>>
    /\ Lexemes(tokens) = << <<"a", Quote, "B">> >>

\* position p is before position q: by line, then by column
PosLt(p, q) == p.line < q.line \/ (p.line = q.line /\ p.col < q.col)

\* the offsets of the characters of t that the half-open span [start, end) of
\* tok covers: those whose own position is at or after start and before end
CoveredBy(t, tok) ==
    {i \in 1..Len(t) : /\ ~PosLt(RefPosAt(t, i - 1), tok.start)
                       /\ PosLt(RefPosAt(t, i - 1), tok.end)}

RECURSIVE SubsequenceAt(_, _, _)
\* the characters of t at the offsets of I, from offset i on, in order
SubsequenceAt(t, I, i) ==
    IF i > Len(t) THEN <<>>
    ELSE (IF i \in I THEN <<t[i]>> ELSE <<>>) \o SubsequenceAt(t, I, i + 1)

RECURSIVE CoveredChars(_, _)
\* the characters the spans of the tokens ts cover, concatenated in emission order
CoveredChars(t, ts) ==
    IF ts = <<>> THEN <<>>
    ELSE SubsequenceAt(t, CoveredBy(t, Head(ts)), 1) \o CoveredChars(t, Tail(ts))

\* the accepted letters of s, in order
LettersOf(s) == SubsequenceAt(s, {i \in 1..Len(s) : is_accepted_char(s[i])}, 1)

\* C12 as stated: once the Lexer is exhausted, the characters its tokens' spans
\* cover, concatenated in emission order, are exactly the accepted letters of
\* the text: none is missing and nothing but accepted letters is covered.
C12_SpansCoverLettersOnly == exhausted => CoveredChars(text, tokens) = LettersOf(text)

\* --------------------------------------------- properties of the expanders
\* the length of a lexeme in UTF-16 code units
RefUnitsOf(s) == SumOver([i \in 1..Len(s) |-> RefUnits(s[i])], 1, Len(s))

\* the sub-tokens lie end to end over the span of tok, each as wide as its
\* lexeme has UTF-16 code units
SpansRoundTrip(tok, subs) ==
    /\ subs # <<>>
    /\ subs[1].start = tok.start
    /\ \A i \in 1..Len(subs) :
          subs[i].end = set_col(subs[i].start, subs[i].start.col + RefUnitsOf(subs[i].lexeme))
    /\ \A i \in 1..(Len(subs) - 1) : subs[i].end = subs[i + 1].start
    /\ subs[Len(subs)].end = tok.end

\* C7: whenever expand splits a token of the Lexer, the sub-tokens start at its
\* start, are each as wide as their lexeme in UTF-16 code units, are contiguous,
\* and end at its end.
C7_ExpandSpans ==
    \A i \in 1..Len(expanded) :
        LET e == expanded[i] IN
        /\ e.casing.some => SpansRoundTrip(e.token, e.casing.v)
        /\ Len(e.iter) >= 2 => SpansRoundTrip(e.token, e.iter)

AllLowercase(s) == \A i \in 1..Len(s) : is_lowercase(s[i])
AllUppercase(s) == \A i \in 1..Len(s) : is_uppercase(s[i])
AllLetters(s) == \A i \in 1..Len(s) : is_accepted_char(s[i])

\* a lexeme of no casing convention: all lowercase, all uppercase, or one letter
NoCasing(s) == AllLowercase(s) \/ AllUppercase(s) \/ (Len(s) = 1 /\ AllLetters(s))

\* C8: expand never yields an empty result, and yields the token itself,
\* unchanged, when its lexeme follows no casing convention.
C8_ExpandNonEmpty ==
    \A i \in 1..Len(expanded) :
        LET e == expanded[i] IN
        /\ e.kept # <<>> /\ e.iter # <<>>
        /\ NoCasing(e.token.lexeme) => e.kept = <<e.token>> /\ e.iter = <<e.token>>

\* a lexeme made of capitalized words (an uppercase letter, then lowercase
\* letters) and acronyms (two or more uppercase letters)
CapsAndAcronyms(s) ==
    /\ s # <<>> /\ AllLetters(s) /\ is_uppercase(s[1])
    /\ is_uppercase(s[Len(s)]) => Len(s) >= 2 /\ is_uppercase(s[Len(s) - 1])

\* where the words of such a lexeme begin: at each uppercase letter that is
\* first, or follows a lowercase letter, or is followed by one
WordStarts(s) ==
    {i \in 1..Len(s) :
        /\ is_uppercase(s[i])
        /\ \/ i = 1
           \/ is_lowercase(s[i - 1])
           \/ i < Len(s) /\ is_lowercase(s[i + 1])}

\* the words of such a lexeme, in order
CapWords(s) ==
    LET starts == WordStarts(s)
        nth[n \in 1..Cardinality(starts)] ==
            LET i == CHOOSE x \in starts : Cardinality({y \in starts : y < x}) = n - 1
                later == {y \in starts : y > i}
            IN SubSeq(s, i, IF later = {} THEN Len(s)
                            ELSE (CHOOSE y \in later : \A z \in later : y <= z) - 1)
    IN nth

\* C9: the Expander splits a lexeme of capitalized words and acronyms into its
\* capitalized words and its runs of uppercase letters, the last uppercase
\* letter of a run going to the lowercase letters that follow it.
C9_CapitalsAndAcronyms ==
    \A i \in 1..Len(expanded) :
        CapsAndAcronyms(expanded[i].token.lexeme) =>
            Lexemes(expanded[i].iter) = CapWords(expanded[i].token.lexeme)

\* C9 happens: a capitalized word, an acronym and a capitalized word (the
\* shape of DataJSONGood) are split in three
C9_Witness ==
    \E i \in 1..Len(expanded) :
        /\ expanded[i].token.lexeme = <<"B", "a", "B", "B", "B", "a">>
        /\ Lexemes(expanded[i].iter) = << <<"B", "a">>, <<"B", "B">>, <<"B", "a">> >>

\* ------------------------------------------ properties of the dispatch bridge
Channels == {"check", "suggest"}

IsPrefix(p, q) == Len(p) <= Len(q) /\ \A i \in 1..Len(p) : p[i] = q[i]

\* what fail-open gives a caller of each kind
FailOpen(kind) == IF kind = "check" THEN Some(TRUE) ELSE Some(<<>>)

\* C4: called while no Sender is installed, spell_check and suggest complete
\* normally (with true and with the empty list): no caller panics.
C4_FailOpenUninitialized == \A c \in Callers : pc[c] # "panicked"

\* C5: once a worker thread has ended, a caller blocked on it is released, a
\* request that got no reply yields true (check) or the empty list (suggest),
\* and a check whose requests all got no reply returns no finding.
C5_FailOpenWorkerGone ==
    \A c \in Callers :
        /\ pc[c] = "waiting" /\ worker[task[c].kind].state = "dead"
              => oneshot[c].state \in {"sent", "dropped"}
        /\ \A i \in 1..Len(outcomes[c]) :
              outcomes[c][i].how = "dropped"
                  => Some(outcomes[c][i].result) = FailOpen(task[c].kind)
        /\ (/\ task[c].kind = "check" /\ pc[c] = "done"
            /\ \A i \in 1..Len(outcomes[c]) : outcomes[c][i].how = "dropped")
              => findings[c] = <<>>

\* C5 happens: the check worker is dead and a check of two words no dictionary
\* holds has returned, both requests unanswered
C5_Witness ==
    \E c \in Callers :
        /\ worker["check"].state = "dead"
        /\ task[c].kind = "check"
        /\ task[c].arg = <<"a", "a", "oe", "B", "oe", "oe">>
        /\ pc[c] = "done"
        /\ Len(outcomes[c]) = 2
        /\ \A i \in 1..2 : outcomes[c][i].how = "dropped" /\ ~CheckVerdict(outcomes[c][i].word)

\* the replies caller c has been sent on channel k
RepliesTo(k, c) == {i \in 1..Len(answered[k]) : answered[k][i].caller = c}

\* C6: a live worker answers the requests of its channel in arrival order, once
\* each, on the request's own reply channel: the answered requests are the first
\* to have arrived, the others are still held or queued in arrival order, and
\* what a caller gets is the result for the word it sent.
C6_FifoOneReplyEach ==
    /\ \A k \in Channels :
          /\ IsPrefix(answered[k], arrived[k])
          /\ worker[k].state # "dead" =>
                arrived[k] = answered[k]
                             \o (IF worker[k].state = "busy" THEN <<worker[k].req>> ELSE <<>>)
                             \o chan[k].queue
    /\ \A c \in Callers :
          LET k == task[c].kind
              got == {i \in 1..Len(outcomes[c]) : outcomes[c][i].how = "sent"}
          IN /\ Cardinality(RepliesTo(k, c)) =
                    Cardinality(got) + (IF oneshot[c].state = "sent" THEN 1 ELSE 0)
             /\ \A i \in got :
                    IF k = "check"
                    THEN outcomes[c][i].result = CheckVerdict(outcomes[c][i].word)
                    ELSE outcomes[c][i].result \in TakeFrom(SuggestSet(outcomes[c][i].word))
             /\ \A i \in RepliesTo(k, c) : answered[k][i].n <= Len(outcomes[c]) + 1

\* C6 happens: two callers had requests on the check channel at once, and both
\* have their replies, a different verdict each
C6_Witness ==
    /\ worker["check"].state = "idle"
    /\ Len(arrived["check"]) >= 2
    /\ arrived["check"][1].caller # arrived["check"][2].caller
    /\ IsPrefix(SubSeq(arrived["check"], 1, 2), answered["check"])
    /\ \A c \in Callers :
          /\ Len(outcomes[c]) >= 1
          /\ outcomes[c][1].how = "sent"
    /\ outcomes[1][1].result # outcomes[2][1].result

\* ------------------------------------------ properties of the check pipeline
SameUpToCase(v, w) == to_lowercase(v) = to_lowercase(w)

\* the words whose insert into the local dictionary has been done
Inserted == {task[d].insert.v : d \in {e \in Callers : task[e].insert.some /\ pc[e] # "insert"}}

\* C13: a token whose lexeme is in the local dictionary when it is checked is
\* never added to the findings, whatever the check worker replied: a token added
\* to the findings is not in the dictionary, and equals no inserted word up to
\* letter case.
C13_AcceptedWordSuppressed ==
    [][\A c \in Callers :
          Len(findings'[c]) > Len(findings[c]) =>
              LET f == findings'[c][Len(findings'[c])] IN
              /\ to_lowercase(f.lexeme) \notin local_dict
              /\ \A w \in Inserted : ~SameUpToCase(f.lexeme, w)]_vars

\* C13 happens: a word was inserted in one letter case, the check worker
\* replied that the same word in another letter case is not in its dictionaries,
\* and the check that asked has returned without a finding
C13_Witness ==
    \E c \in Callers :
        /\ task[c].arg = OtherText /\ pc[c] = "done"
        /\ Inserted = {<<"B", "OE", "oe">>}
        /\ Len(outcomes[c]) = 1
        /\ outcomes[c][1].how = "sent" /\ outcomes[c][1].result = FALSE
        /\ findings[c] = <<>>

Elements(q) == {q[i] : i \in 1..Len(q)}

\* the tokens of text t whose whole lexeme is a reserved word of language lang
KeywordTokens(t, lang) ==
    {tok \in Elements(Lexer_collect(Lexer_new(t))) : tok.lexeme \in from_lang(lang)}

\* C14: a token whose lexeme, before expansion, is exactly a reserved word of
\* the document's language (here "rust") is dropped and yields no finding:
\* it is neither in what Pipeline::run returns nor among the findings of
\* misspelled_tokens.
C14_KeywordsDropped ==
    \A c \in Callers :
        LET kws == KeywordTokens(task[c].arg, "rust") IN
        /\ Elements(Pipeline_run("rust", Lexer_new(task[c].arg))) \cap kws = {}
        /\ Elements(findings[c]) \cap kws = {}

\* C15: while the check of one handler waits for the reply of the check
\* worker, a handler of the same scheduler thread that has not started yet can
\* take its first step.
C15_WaitingYieldsThread ==
    \A c, d \in Callers :
        (/\ c # d /\ task[c].thread = task[d].thread
         /\ task[c].kind = "check" /\ pc[c] = "waiting" /\ oneshot[c].state = "open"
         /\ pc[d] = "ready" /\ cursor[d] = 0)
            => ENABLED (CheckSend(d) \/ SuggestSend(d))

\* some configured dictionary reports the word as found
FoundInSome(word) == \E d \in Dicts : word \in DictWords(d)

\* C16: the reply of the check worker for a word is true exactly when at least
\* one configured dictionary reports the word as found, and false when none
\* does: so is every reply in flight and every reply a caller has received.
C16_VerdictIsOr ==
    \A c \in Callers :
        /\ (task[c].kind = "check" /\ pc[c] = "waiting" /\ oneshot[c].state = "sent")
              => (oneshot[c].value <=> FoundInSome(task[c].cands[cursor[c] + 1].lexeme))
        /\ \A i \in 1..Len(outcomes[c]) :
              (task[c].kind = "check" /\ outcomes[c][i].how = "sent")
                  => (outcomes[c][i].result <=> FoundInSome(outcomes[c][i].word))

\* C16 happens: the worker has replied true for a word that only the second
\* dictionary holds, true for one both hold and false for one none holds
C16_Witness ==
    /\ \E c \in Callers : \E i \in 1..Len(outcomes[c]) :
          /\ outcomes[c][i].how = "sent" /\ outcomes[c][i].result = TRUE
          /\ outcomes[c][i].word \in DictWords(2) \ DictWords(1)
    /\ \E c \in Callers : \E i \in 1..Len(outcomes[c]) :
          /\ outcomes[c][i].how = "sent" /\ outcomes[c][i].result = FALSE
          /\ ~FoundInSome(outcomes[c][i].word)

\* ----------------------------------------------- properties of suggest
\* the lists suggest has returned to caller c from a reply of the worker, each
\* with the word that was asked
Suggested(c) ==
    {outcomes[c][i] : i \in {j \in 1..Len(outcomes[c]) :
                                task[c].kind = "suggest" /\ outcomes[c][j].how = "sent"}}

\* some configured dictionary returns s as a suggestion for word
SuggestedBySome(s, word) == \E d \in Dicts : s \in Elements(DictSuggest(d, word))

\* C17: a list suggest returns has at most 6 strings, no string twice, only
\* strings of more than 2 characters, and only strings that some configured
\* dictionary suggests for the word.
C17_SuggestList ==
    \A c \in Callers : \A o \in Suggested(c) :
        /\ Len(o.result) <= 6
        /\ \A i, j \in 1..Len(o.result) : i # j => o.result[i] # o.result[j]
        /\ \A i \in 1..Len(o.result) :
              /\ Len(o.result[i]) > 2
              /\ SuggestedBySome(o.result[i], o.word)

\* C18: two suggest calls with the same word against the same dictionaries
\* return the same list, the same strings in the same order.
C18_SuggestPure ==
    \A c, d \in Callers : \A o \in Suggested(c) : \A q \in Suggested(d) :
        o.word = q.word => o.result = q.result

\* C19: no finding of misspelled_tokens has a lexeme of 3 characters or fewer,
\* sub-tokens of a split token included, and no word of 3 characters or fewer
\* is sent to the check worker.
C19_LengthFilter ==
    /\ \A c \in Callers : \A f \in Elements(findings[c]) : Len(f.lexeme) > 3
    /\ \A r \in Elements(arrived["check"]) : Len(r.word) > 3

\* C20: the findings of one check are in source order: of two findings, the
\* later in the list does not start before the earlier (by line, then column).
C20_FindingsInSourceOrder ==
    \A c \in Callers : \A i, j \in 1..Len(findings[c]) :
        i < j => ~PosLt(findings[c][j].start, findings[c][i].start)

\* ------------------------------------------ more properties of the Lexer
\* the newlines among the characters of t after offset from, up to offset upto
NewlinesBetween(t, from, upto) == Cardinality({i \in (from + 1)..upto : t[i] = Newline})

\* C21: the position of the Lexer never moves backwards (by line, then column):
\* the line starts at 0 and grows by exactly 1 per newline consumed, the column
\* is 0 right after a newline and does not decrease while the line stays, and a
\* token that follows k newlines starts on line k.
C21_PositionMonotone ==
    /\ Lexer_pos(lx) = Pos(0, 0)
    /\ [][/\ ~PosLt(Lexer_pos(lx'), Lexer_pos(lx))
          /\ lx'.line = lx.line + NewlinesBetween(text, lx.offset, lx'.offset)
          /\ (lx'.offset > 0 /\ text[lx'.offset] = Newline) => lx'.col = 0
          /\ lx'.line = lx.line => lx'.col >= lx.col
          /\ \A i \in 1..Len(tokens') :
                tokens'[i].start.line = NewlinesBetween(text, 0, spans'[i].from)]_vars

\* C21 happens: the Lexer has stopped right after the second newline of a text,
\* at column 0 of line 2, behind a token on line 1
C21_Witness ==
    /\ text = <<Newline, "a", Newline, "B">>
    /\ lx.offset = 3 /\ Lexer_pos(lx) = Pos(2, 0)
    /\ Len(tokens) = 1 /\ tokens[1].start = Pos(1, 0)

C23_LexerTerminates ==
    /\ <>[](exhausted /\ lx.text = <<>> /\ lx.offset = Len(text))
    /\ [](Len(tokens) <= Len(text))
    /\ []((exhausted /\ ~\E i \in 1..Len(text) : is_accepted_char(text[i]))
            => tokens = <<>> /\ candidate_tokens(text) = <<>>)

\* C23 happens: the Lexer has returned None at the end of a text of separators
\* only, and no token came out of it
C23_Witness ==
    /\ exhausted /\ Len(text) = MaxTextLen /\ lx.offset = Len(text)
    /\ \A i \in 1..Len(text) : ~is_accepted_char(text[i])
    /\ tokens = <<>>

\* ------------------------------------------------ the casing classifiers
\* some character of s after its first is one of the uppercase letters
UpperAfterFirst(s) == \E i \in 2..Len(s) : is_uppercase(s[i])

\* some character of s after its first is one of the lowercase letters
LowerAfterFirst(s) == \E i \in 2..Len(s) : is_lowercase(s[i])

\* C25: is_pascal is true exactly for a lexeme whose first character is
\* uppercase and whose other characters hold an uppercase and a lowercase
\* letter, in any order; is_camel is true exactly for a lexeme whose first
\* character is not uppercase and which has an uppercase letter later.
C25_PascalAndCamel ==
    \A i \in 1..Len(expanded) :
        LET e == expanded[i]
            s == e.token.lexeme
        IN /\ e.pascal <=> (is_uppercase(s[1]) /\ UpperAfterFirst(s) /\ LowerAfterFirst(s))
           /\ e.camel <=> (~is_uppercase(s[1]) /\ UpperAfterFirst(s))

RECURSIVE Concat(_)
\* the sequences of ws joined in order
Concat(ws) == IF ws = <<>> THEN <<>> ELSE Head(ws) \o Concat(Tail(ws))

\* how many characters of s are uppercase letters
CountUppercase(s) == Cardinality({i \in 1..Len(s) : is_uppercase(s[i])})

\* C26: split_on_uppercase closes a word at each uppercase letter met while a
\* word is open: its words are non-empty, have no uppercase letter after their
\* first character, join to the lexeme, and number the uppercase letters of the
\* lexeme, plus one when the lexeme starts with another character.
C26_SplitOnUppercase ==
    \A i \in 1..Len(expanded) :
        LET s == expanded[i].token.lexeme
            ws == expanded[i].split
        IN /\ \A k \in 1..Len(ws) : ws[k] # <<>> /\ ~UpperAfterFirst(ws[k])
           /\ Concat(ws) = s
           /\ Len(ws) = CountUppercase(s) + (IF is_uppercase(s[1]) THEN 0 ELSE 1)

\* C26 happens: a lexeme that starts with a lowercase letter and has two
\* uppercase letters has been split in three words
C26_Witness ==
    \E i \in 1..Len(expanded) :
        /\ expanded[i].token.lexeme = <<"a", "B", "oe", "B">>
        /\ expanded[i].split = << <<"a">>, <<"B", "oe">>, <<"B">> >>

\* ------------------------------------------------- the width of a token
\* C27: every token of the Lexer lies on one line and is as many columns wide
\* as its lexeme has UTF-16 code units.
C27_TokenWidth ==
    \A i \in 1..Len(tokens) :
        /\ tokens[i].start.line = tokens[i].end.line
        /\ tokens[i].end.col - tokens[i].start.col = RefUnitsOf(tokens[i].lexeme)

\* -------------------------------------------- the words of the Expander
\* C28: the words the Expander yields for a lexeme, joined in order, are the
\* lexeme: no character is dropped.
C28_ExpanderLossless ==
    \A i \in 1..Len(expanded) :
        LET e == expanded[i] IN
        Concat([k \in 1..Len(e.iter) |-> e.iter[k].lexeme]) = e.token.lexeme

\* ------------------------------------------------------- the two workers
\* C29: the check worker and the suggest worker are independent: a check
\* request that was sent is answered (by a verdict, or by the drop of its
\* Sender when the check worker is gone) whatever the suggest worker does, also
\* when a suggest computation never finishes.
C29_CheckNotBehindSuggest ==
    \A c \in Callers :
        (task[c].kind = "check" /\ pc[c] = "waiting")
            ~> (pc[c] = "waiting" /\ oneshot[c].state \in {"sent", "dropped"})

\* C29 happens: a check request has its verdict while the suggest worker is
\* still computing the first request it took, with no suggest reply sent yet
C29_Witness ==
    /\ worker["suggest"].state = "busy"
    /\ \E c \in Callers :
          /\ task[c].kind = "check" /\ pc[c] = "waiting" /\ oneshot[c].state = "sent"
          /\ answered["suggest"] = <<>> /\ arrived["suggest"] # <<>>

\* --------------------------------------------------- the stored document
\* C30: when add.all.to.dict has completed on a document whose text was the
\* same at its two reads, the diagnostics it publishes are empty, and every
\* lexeme it found misspelled before inserting is in the local dictionary.
C30_AddAllClears ==
    \A c \in Callers :
        (/\ handler[c].cmd = "add_all_to_dict" /\ handler[c].pass = 2 /\ pc[c] = "done"
         /\ handler[c].read[1] = handler[c].read[2])
        => /\ findings[c] = <<>>
           /\ \A i \in 1..Len(handler[c].reported) :
                 LocalDictionary_contains(local_dict, handler[c].reported[i].lexeme)

\* C30 happens: add.all.to.dict has completed after inserting two misspelled
\* words, one of them written with an uppercase letter
C30_Witness ==
    \E c \in Callers :
        /\ handler[c].cmd = "add_all_to_dict" /\ handler[c].pass = 2 /\ pc[c] = "done"
        /\ handler[c].read[1] = handler[c].read[2]
        /\ Len(handler[c].reported) = 2
        /\ findings[c] = <<>>

\* handler c takes a step of a check in this step: of spell_check_uri from its
\* get on, or of misspelled_tokens
CheckStep(c) == pc[c] \in {"get", "ready", "waiting"} /\ pc'[c] # pc[c]

\* handler c takes the inserting step of add.to.dict or add.all.to.dict
InsertStep(c) ==
    \/ handler[c].cmd \in {"add_to_dict", "spell_check_uri"}
          /\ pc[c] = "insert" /\ pc'[c] # "insert"
          /\ local_dict' = local_dict \cup {to_lowercase(task[c].insert.v)}
    \/ handler[c].cmd = "add_all_to_dict" /\ pc[c] = "done" /\ pc'[c] = "get"
          /\ local_dict' = local_dict \cup
                              {to_lowercase(findings[c][i].lexeme) : i \in 1..Len(findings[c])}

\* C24: a check changes neither the local dictionary nor the stored text: no
\* step of a check changes either, and words come into the local dictionary
\* only by the inserting step of add.to.dict or add.all.to.dict, and never
\* leave it.
C24_CheckFrame ==
    [][/\ \A c \in Callers :
             CheckStep(c) => local_dict' = local_dict /\ sources' = sources
       /\ local_dict' # local_dict => \E c \in Callers : InsertStep(c)
       /\ local_dict \subseteq local_dict']_vars

\* C24 happens: a did_save has stored its text and checked it to the end, with
\* findings, and the local dictionary is still empty
C24_Witness ==
    \E c \in Callers :
        /\ handler[c].cmd = "did_save" /\ pc[c] = "done"
        /\ sources = Some(task[c].arg) /\ handler[c].read = <<task[c].arg>>
        /\ Len(findings[c]) = 2
        /\ local_dict = {}

\* ------------------------------------------------------ replace.with.word
\* the number of characters of t before the position pos
RefOffsetOf(t, pos) == CHOOSE k \in 0..Len(t) : RefPosAt(t, k) = pos

\* t with the characters of the range from..to replaced by word
RefReplaced(t, from, to, word) ==
    SubSeq(t, 1, RefOffsetOf(t, from)) \o word \o SubSeq(t, RefOffsetOf(t, to) + 1, Len(t))

\* C31: replace.with.word never fails on the range of a diagnostic, and after
\* it the stored text is the previous text with the characters of the range
\* replaced by the word, whatever the length of the word.
C31_ReplaceInRange ==
    \A c \in Callers :
        handler[c].cmd = "replace_with_word" =>
            /\ pc[c] # "panicked"
            /\ pc[c] = "get" =>
                  sources = Some(RefReplaced(text, handler[c].reported[1].start,
                                             handler[c].reported[1].end, task[c].arg))

\* what a peek at index idx ought to see in the items rest: the item idx places
\* after the next one, if there is one
RefPeeked(rest, idx) == IF idx < Len(rest) THEN rest[idx + 1] ELSE None

\* C32: whatever calls of next, peek and peek_at have been made on a
\* BufferedPeekable, the items next has returned, followed by the items still
\* held, are the items of the underlying iterator in their order, so none is
\* lost, repeated or moved. A next returns the first item still held and takes
\* only that one; a peek_at(i) with i < buf_size returns the item i places
\* further, which is the one the (i+1)-th following next returns, or None when
\* there is none, and takes nothing; a peek_at(i) with i >= buf_size returns
\* None and leaves the buffer as it was.
C32_PeekableKeepsOrder ==
    /\ returned \o Remaining(peekable) = text
    /\ last_call.op = "next" =>
          /\ last_call.item = RefPeeked(last_call.rest, 0)
          /\ Remaining(peekable) =
                IF last_call.rest = <<>> THEN <<>> ELSE Tail(last_call.rest)
    /\ last_call.op \in {"peek", "peek_at"} =>
          /\ Remaining(peekable) = last_call.rest
          /\ IF last_call.idx < peekable.buf_size
             THEN last_call.item = RefPeeked(last_call.rest, last_call.idx)
             ELSE last_call.item = None /\ peekable.buffer = last_call.buffer

\* C32 witness: two items were looked at ahead, the first was then taken by
\* next, and a peek_at(1) now returns the item after the one next will return,
\* while both are still held
C32_Witness ==
    /\ Len(returned) = 1
    /\ last_call.op = "peek_at" /\ last_call.idx = 1 /\ peekable.buf_size > 1
    /\ last_call.item # None /\ last_call.item # Head(last_call.rest)
    /\ Len(last_call.buffer) = 1 /\ Len(peekable.buffer) = 2

====
